---- MODULE Spec2Model ----
(***************************************************************************)
(* A model of src/dht.go (package dht): decoding of DHT11 / DHT22 pulse    *)
(* trains, the bounded retry loop around one read, and the reconstruction  *)
(* of pulses from time-stamped level samples (sift).                       *)
(*                                                                         *)
(* Conventions.                                                            *)
(*  - Go slices are 0-based; At(s, i) reads element i of a slice.          *)
(*  - A Pulse's Duration is always a whole number of microseconds (it is   *)
(*    built as int * time.Microsecond, line 69), so durations are kept in  *)
(*    microseconds.                                                        *)
(*  - temperature and humidity are float32 in the code; every value the    *)
(*    code can produce is a multiple of 0.1, so both are kept in tenths    *)
(*    (23.0 C is 230, the sentinel -1 is -10).  The comparison             *)
(*    humidity > 100.0 is then humidity > 1000.                            *)
(*  - An error is a record [kind, args]: the message's kind and the values *)
(*    formatted into it.  Nil is the nil error.                            *)
(***************************************************************************)
EXTENDS Integers, Sequences, FiniteSets, TLC

\* ------------------------------------------------------------------ bounds
\* Lengths of pulse trains tried: 82 - LenSlack .. 85 + LenSlack.
LenSlack == 1
\* Low byte values 0 .. ByteSpan are added to the data bytes tried.
ByteSpan == 1
\* ReadDHTxxWithRetry is called with retry in 0 .. MaxRetry.
MaxRetry == 2
\* decodeByte is called with start in 0 .. MaxStart.
MaxStart == 2

\* ------------------------------------------------------- program constants
DHT11 == 1
DHT22 == 2
AM2302 == DHT22
SensorTypes == {DHT11, DHT22, AM2302}

HIGH_DUR_MAX == (70 + (70 + 54)) \div 2
HIGH_DUR_AVG == 24 + (70 - 24) \div 2

\* ----------------------------------------------------------------- helpers
At(s, i) == s[i + 1]
\* Go's s[from:] and s[:to]
SliceFrom(s, from) == SubSeq(s, from + 1, Len(s))
SliceTo(s, to) == SubSeq(s, 1, to)

Nil == [kind |-> "nil", args |-> <<>>]
Err(kind, args) == [kind |-> kind, args |-> args]

Tenths(n) == n * 10

Pulse(v, d) == [Value |-> v, Duration |-> d]

\* Lines 60-70: the flat array [value, duration, value, duration, ...] that
\* dialDHTxxAndRead returns becomes a slice of Pulses; any nonzero value is 1.
ArrToPulses(arr) ==
    [x \in 1..(Len(arr) \div 2) |->
        Pulse(IF arr[2 * x - 1] # 0 THEN 1 ELSE 0, arr[2 * x])]

\* -------------------------------------------------------------- decodeByte
\* Line 98: the bit is 1 when the high pulse lasts longer than HIGH_DUR_AVG.
BitValue_GE(dur) == dur >= HIGH_DUR_AVG
BitValue(dur) == dur > HIGH_DUR_AVG

\* Line 94: a high pulse longer than HIGH_DUR_MAX is refused.
TooLong_GE(dur) == dur >= HIGH_DUR_MAX
TooLong(dur) == dur > HIGH_DUR_MAX

\* Line 100: b = b | (1 << uint(7-i)); bit 7-i of b is still clear there, so
\* the OR adds 2^(7-i).
SetBit_LSBFirst(b, i) == b + 2 ^ i
SetBit(b, i) == b + 2 ^ (7 - i)

\* Lines 81-103: the loop over the 8 (low, high) pairs, from pair i on, with
\* the bits gathered so far in b.
RECURSIVE decodeBits(_, _, _, _)
decodeBits(ps, start, i, b) ==
    IF i >= 8 THEN [b |-> b % 256, err |-> Nil]
    ELSE LET pulseL == At(ps, start + i * 2)
             pulseH == At(ps, start + i * 2 + 1)
         IN  IF pulseL.Value # 0
               THEN [b |-> 0, err |-> Err("low_edge", <<start + i * 2>>)]
             ELSE IF pulseH.Value = 0
               THEN [b |-> 0, err |-> Err("high_edge", <<start + i * 2 + 1>>)]
             ELSE IF TooLong(pulseH.Duration)
               THEN [b |-> 0, err |-> Err("high_dur", <<pulseH.Duration, HIGH_DUR_MAX>>)]
             ELSE decodeBits(ps, start, i + 1,
                             IF BitValue(pulseH.Duration) THEN SetBit(b, i) ELSE b)

\* Lines 75-104.
decodeByte(ps, start) ==
    IF Len(ps) - start < 16
      THEN [b |-> 0, err |-> Err("range16", <<start, Len(ps)>>)]
      ELSE decodeBits(ps, start, 0, 0)

\* ------------------------------------------------------- decodeDHT11Pulses
\* Lines 111-121: the leading pulses dropped for each accepted length; -1 for
\* a length that is refused.
TrimCount_Lax(n) ==
    IF n = 85 THEN 3 ELSE IF n = 84 THEN 2 ELSE IF n = 83 THEN 1
    ELSE IF n # 82 /\ n # 80 THEN -1 ELSE 0
TrimCount_Off(n) ==
    IF n = 85 THEN 2 ELSE IF n = 84 THEN 2 ELSE IF n = 83 THEN 1
    ELSE IF n # 82 THEN -1 ELSE 0
TrimCount(n) ==
    IF n = 85 THEN 3 ELSE IF n = 84 THEN 2 ELSE IF n = 83 THEN 1
    ELSE IF n # 82 THEN -1 ELSE 0

\* Line 149: byte(b0+b1+b2+b3), unsigned 8-bit arithmetic.
ByteSum_NoWrap(b0, b1, b2, b3) == b0 + b1 + b2 + b3
ByteSum(b0, b1, b2, b3) == (b0 + b1 + b2 + b3) % 256

\* Line 149: the integrity check passes when sum equals the byte sum.
SumMatches_Low7(sum, b0, b1, b2, b3) == sum % 128 = ByteSum(b0, b1, b2, b3) % 128
SumMatches(sum, b0, b1, b2, b3) == sum = ByteSum(b0, b1, b2, b3)

\* Lines 157-167: the variant's conversion, in tenths.  b2 & 0x7F is b2 % 128
\* and b2 & 0x80 # 0 is b2 >= 128 for a byte.
Convert_NoSign(sensorType, b0, b1, b2, b3) ==
    IF sensorType = DHT11
      THEN [temperature |-> Tenths(b2), humidity |-> Tenths(b0)]
    ELSE IF sensorType = DHT22
      THEN [temperature |-> (b2 % 128) * 256 + b3, humidity |-> b0 * 256 + b1]
    ELSE [temperature |-> 0, humidity |-> 0]
Convert(sensorType, b0, b1, b2, b3) ==
    IF sensorType = DHT11
      THEN [temperature |-> Tenths(b2), humidity |-> Tenths(b0)]
    ELSE IF sensorType = DHT22
      THEN LET magnitude == (b2 % 128) * 256 + b3
           IN  [temperature |-> IF b2 >= 128 THEN -1 * magnitude ELSE magnitude,
                humidity |-> b0 * 256 + b1]
    ELSE [temperature |-> 0, humidity |-> 0]

\* Line 168: humidity > 100.0
HumidityTooHigh_Never(humidity) == FALSE
HumidityTooHigh(humidity) == humidity > Tenths(100)

\* What a failed decode returns: -1, -1, err (lines 119, 126, ..., 152, 169).
\* bytes is what line 155 wrote to the debug log before the return, if reached.
DecodeFailed_Zero(err, bytes) ==
    [temperature |-> 0, humidity |-> 0, err |-> err, bytes |-> bytes]
DecodeFailed(err, bytes) ==
    [temperature |-> Tenths(-1), humidity |-> Tenths(-1), err |-> err, bytes |-> bytes]

\* Lines 109-173.  The result carries, besides the three returned values, the
\* five bytes line 155 logs once the checksum is accepted (<<>> before that).
decodeDHT11Pulses(sensorType, pulses0) ==
    LET n == Len(pulses0)
    IN  IF TrimCount(n) < 0 THEN DecodeFailed(Err("length", <<n>>), <<>>)
        ELSE
        LET pulses == SliceTo(SliceFrom(pulses0, TrimCount(n)), 80)
            r0 == decodeByte(pulses, 0)
            r1 == decodeByte(pulses, 16)
            r2 == decodeByte(pulses, 32)
            r3 == decodeByte(pulses, 48)
            r4 == decodeByte(pulses, 64)
        IN  IF r0.err # Nil THEN DecodeFailed(r0.err, <<>>)
            ELSE IF r1.err # Nil THEN DecodeFailed(r1.err, <<>>)
            ELSE IF r2.err # Nil THEN DecodeFailed(r2.err, <<>>)
            ELSE IF r3.err # Nil THEN DecodeFailed(r3.err, <<>>)
            ELSE IF r4.err # Nil THEN DecodeFailed(r4.err, <<>>)
            ELSE
            LET b0 == r0.b
                b1 == r1.b
                b2 == r2.b
                b3 == r3.b
                sum == r4.b
                bytes == <<b0, b1, b2, b3, sum>>
                v == Convert(sensorType, b0, b1, b2, b3)
            IN  IF ~SumMatches(sum, b0, b1, b2, b3)
                  THEN DecodeFailed(
                         Err("checksum", <<sum, ByteSum(b0, b1, b2, b3), b0, b1, b2, b3>>),
                         <<>>)
                ELSE IF HumidityTooHigh(v.humidity)
                  THEN DecodeFailed(Err("humidity", <<v.humidity>>), bytes)
                ELSE [temperature |-> v.temperature, humidity |-> v.humidity,
                      err |-> Nil, bytes |-> bytes]

\* ------------------------------------------------------------------- state
VARIABLES
    \* decodeByte, called on its own
    start,        \* its start argument
    bres,         \* its result [b, err], or <<>> before the call
    \* decodeDHT11Pulses / ReadDHTxx
    sensorType,   \* the sensorType argument
    pulses,       \* the pulses argument ([]Pulse)
    dec,          \* decodeDHT11Pulses' result, or <<>> before the call
    gen,          \* how the input at hand was built (not program state)
    \* ReadDHTxxWithRetry
    pc,           \* where the call stands
    retry,        \* the retry parameter, counted down
    retried,      \* the named result retried
    dial,         \* what dialDHTxxAndGetResponse returned in this attempt
    last,         \* what ReadDHTxx returned in this attempt
    ret,          \* what ReadDHTxxWithRetry returned, or <<>>
    hist,         \* the error kind of every attempt so far (not program state)
    asked,        \* the retry argument of the call (not program state)
    sleeps,       \* the durations (us) of the monoSleep calls made so far
    \* sift
    input,        \* the input argument ([]StampedValue, Time in ns)
    timeoutMsec,  \* the timeoutMsec argument
    spc,          \* where the call stands
    j, i, k,      \* its locals j, i and k
    lastV, lastT, \* its locals lastV and lastT (ns)
    values,       \* values[0 .. 2k+1], the part of values written so far
    sres,         \* what sift returned, [arr, err], or <<>>
    \* one attempt: dialDHTxxAndRead with gpioReadSeqUntilTimeout
    apc,          \* where the attempt stands
    calls,        \* the library calls and sleeps made so far (not program state)
    deferred,     \* the deferred calls of the two functions, [outer, inner]
    darr, derr,   \* the arr and err the function at hand is about to return
    panicking     \* a panic is unwinding the attempt

bvars == <<start, bres>>
dvars == <<sensorType, pulses, dec, gen>>
rvars == <<pc, retry, retried, dial, last, ret, hist, asked, sleeps>>
svars == <<input, timeoutMsec, spc, j, i, k, lastV, lastT, values, sres>>
gvars == <<apc, calls, deferred, darr, derr, panicking>>
vars == <<bvars, dvars, rvars, svars, gvars>>

None == <<>>

\* ------------------------------------------------------ building the inputs
\* Bit n of byte b.
Bit(b, n) == (b \div (2 ^ n)) % 2

\* The 16 pulses that send byte b, most significant bit first: a 50 us low
\* pulse, then a high pulse of d0 us for a 0 and of d1 us for a 1.
BytePulses(b, d0, d1) ==
    [x \in 1..16 |->
        IF x % 2 = 1 THEN Pulse(0, 50)
        ELSE Pulse(1, IF Bit(b, 7 - ((x \div 2) - 1)) = 1 THEN d1 ELSE d0)]

Payload(bytes, d0, d1) ==
    BytePulses(bytes[1], d0, d1) \o BytePulses(bytes[2], d0, d1)
      \o BytePulses(bytes[3], d0, d1) \o BytePulses(bytes[4], d0, d1)
      \o BytePulses(bytes[5], d0, d1)

\* The m-th pulse before the payload: the sensor's 80 us high and 80 us low
\* response, the host's release of the line, and line noise before that.
LeadPulse(m) ==
    IF m = 1 THEN Pulse(1, 80)
    ELSE IF m = 2 THEN Pulse(0, 80)
    ELSE IF m = 3 THEN Pulse(1, 30)
    ELSE Pulse((m + 1) % 2, 10)
Lead(p) == [x \in 1..p |-> LeadPulse(p - x + 1)]

\* After the payload: the closing 50 us low pulse and the idle line, which
\* sift closes at timeoutMsec * 1000 us.
Trail == <<Pulse(0, 50), Pulse(1, 10 * 1000)>>

\* A pulse train of n >= 80 pulses around the payload of the five bytes.
Frame(bytes, n, d0, d1) ==
    IF n >= 82 THEN Lead(n - 82) \o Payload(bytes, d0, d1) \o Trail
    ELSE SubSeq(Payload(bytes, d0, d1) \o Trail, 1, n)

\* One damaged pulse: bad = <<index, "level">> flips the level of the pulse at
\* that index of ps, <<index, "long">> stretches it to 98 us.
Damage(ps, bad) ==
    IF bad = None THEN ps
    ELSE [ps EXCEPT ![bad[1] + 1] =
            IF bad[2] = "level" THEN Pulse(1 - @.Value, @.Duration)
            ELSE Pulse(@.Value, 98)]

LowBytes == 0..ByteSpan
B0Vals == {1, 3, 45, 100, 101, 255}
B1Vals == LowBytes \cup {44, 232, 233}
B2Vals == {0, 23, 128, 255}
B3Vals == LowBytes \cup {246}
Quads == B0Vals \X B1Vals \X B2Vals \X B3Vals

\* The valid frame bytes of a quadruple: the four bytes and their checksum.
WithSum(q) == <<q[1], q[2], q[3], q[4], (q[1] + q[2] + q[3] + q[4]) % 256>>

\* A single-byte mutation <<position, delta>>: the byte at the 0-based
\* position becomes a different value.  None mutates nothing.
MutDeltas == {1, 128, 255}
Muts == {None} \cup ((0..4) \X MutDeltas)
Mutate(bytes, m) ==
    IF m = None THEN bytes
    ELSE [bytes EXCEPT ![m[1] + 1] = (@ + m[2]) % 256]

Lens == (82 - LenSlack)..(85 + LenSlack)
Dur0s == {26, 47}
Dur1s == {48, 70, 97}
Bads == {<<0, "level">>, <<1, "level">>, <<1, "long">>, <<2, "long">>,
         <<33, "long">>, <<78, "level">>, <<79, "long">>}

GenFrame(q, m, n, d0, d1, bad) ==
    [orig |-> WithSum(q), bytes |-> Mutate(WithSum(q), m), mut |-> m,
     n |-> n, d0 |-> d0, d1 |-> d1, bad |-> bad]

\* Lengths far from the accepted ones: no pulse at all, and the bare payload.
OddLens == {0, 80}

\* The pulse trains tried: every mutation at the full length, every length,
\* every pair of bit durations, and every damage, on every quadruple; the odd
\* lengths, and damage at a refused length, on one quadruple.
DecodeInputs ==
    {GenFrame(q, m, 85, 26, 70, None) : q \in Quads, m \in Muts}
      \cup {GenFrame(q, None, n, 26, 70, None) : q \in Quads, n \in Lens}
      \cup {GenFrame(q, None, 82, d[1], d[2], None) : q \in Quads, d \in Dur0s \X Dur1s}
      \cup {GenFrame(q, None, 83, 26, 70, bad) : q \in Quads, bad \in Bads}
      \cup {GenFrame(<<45, 0, 23, 0>>, None, n, 26, 70, None) : n \in OddLens}
      \cup {GenFrame(<<45, 0, 23, 0>>, None, 86, 26, 70, bad) : bad \in Bads}

\* The pulses of an input; damage indices count from the payload's start.
FrameOf(g) ==
    LET f == Frame(g.bytes, g.n, g.d0, g.d1)
        off == IF g.n >= 82 THEN g.n - 82 ELSE 0
    IN  IF g.bad = None THEN f ELSE Damage(f, <<g.bad[1] + off, g.bad[2]>>)

IdleRetry ==
    /\ pc = "off" /\ retry = 0 /\ retried = 0 /\ dial = None /\ last = None
    /\ ret = None /\ hist = <<>> /\ asked = 0 /\ sleeps = <<>>
IdleByte == start = 0 /\ bres = None
IdleDial ==
    /\ apc = "off" /\ calls = <<>> /\ deferred = None /\ darr = None /\ derr = None
    /\ panicking = FALSE
IdleSift ==
    /\ input = <<>> /\ timeoutMsec = 0 /\ spc = "off" /\ j = 0 /\ i = 0 /\ k = 0
    /\ lastV = 0 /\ lastT = 0 /\ values = <<>> /\ sres = None

\* ------------------------------------ decodeDHT11Pulses on its own
DecodeInit ==
    /\ \E g \in DecodeInputs :
         /\ gen = g
         /\ pulses = FrameOf(g)
    /\ sensorType \in SensorTypes
    /\ dec = None
    /\ IdleByte
    /\ IdleRetry
    /\ IdleSift
    /\ IdleDial

DoDecode ==
    /\ dec = None
    /\ dec' = decodeDHT11Pulses(sensorType, pulses)
    /\ UNCHANGED <<sensorType, pulses, gen, bvars, rvars, svars, gvars>>

DecodeNext == DoDecode
DecodeSpec == DecodeInit /\ [][DecodeNext]_vars

\* ------------------------------------------------------ decodeByte on its own
\* The pulses tried: `lead` arbitrary pulses, the 16 pulses of byte b, one
\* more pulse; one of them damaged, or the last `cut` pulses missing.
GenByte(b, d0, d1, lead, bad, cut) ==
    [b |-> b, d0 |-> d0, d1 |-> d1, lead |-> lead, bad |-> bad, cut |-> cut]

ByteInputs ==
    {GenByte(b, d[1], d[2], s, None, 0) :
        b \in 0..255, d \in Dur0s \X Dur1s, s \in 0..MaxStart}
      \cup {GenByte(b, 26, d1, s, <<x, how>>, 0) :
              b \in {0, 165, 255}, d1 \in {70, 97}, s \in 0..MaxStart,
              x \in 0..15, how \in {"level", "long"}}
      \cup {GenByte(b, 26, 70, s, None, c) :
              b \in {0, 165, 255}, s \in 0..MaxStart, c \in 1..3}

BytePulsesOf(g) ==
    LET body == IF g.bad = None THEN BytePulses(g.b, g.d0, g.d1)
                ELSE Damage(BytePulses(g.b, g.d0, g.d1), g.bad)
        all == Lead(g.lead) \o body \o <<Pulse(0, 50)>>
    IN  SubSeq(all, 1, Len(all) - g.cut)

ByteInit ==
    /\ \E g \in ByteInputs :
         /\ gen = g
         /\ pulses = BytePulsesOf(g)
         /\ start = g.lead
    /\ bres = None
    /\ sensorType = DHT11 /\ dec = None
    /\ IdleRetry
    /\ IdleSift
    /\ IdleDial

DoDecodeByte ==
    /\ bres = None
    /\ bres' = decodeByte(pulses, start)
    /\ UNCHANGED <<start, dvars, rvars, svars, gvars>>

ByteNext == DoDecodeByte
ByteSpec == ByteInit /\ [][ByteNext]_vars

\* ---------------------------------------------------------------- ReadDHTxx
\* Lines 48-72.  d is what dialDHTxxAndRead returned, [arr, err].
dialDHTxxAndGetResponse(d) ==
    IF d.err # Nil THEN [pulses |-> <<>>, err |-> d.err]
    ELSE [pulses |-> ArrToPulses(d.arr), err |-> Nil]

\* Lines 204 and 211: return -1, -1, err
ReadFailed(err) == [temperature |-> Tenths(-1), humidity |-> Tenths(-1), err |-> err]

\* Lines 199-214.  r is what dialDHTxxAndGetResponse returned and d what
\* decodeDHT11Pulses returned for its pulses (None when it was not called).
ReadDHTxx(r, d) ==
    IF r.err # Nil THEN ReadFailed(r.err)
    ELSE IF d.err # Nil THEN ReadFailed(d.err)
    ELSE [temperature |-> d.temperature, humidity |-> d.humidity, err |-> Nil]

\* ------------------------------------------------------- ReadDHTxxWithRetry
\* Line 238: if retry > 0
MayRetry_OffByOne(n) == n > 1
MayRetry(n) == n > 0

\* Line 241: retried++
IncRetried_Skip(n) == n
IncRetried(n) == n + 1

\* The flat array sift returns for a pulse train (lines 461-468).
PulsesToArr(ps) ==
    [x \in 1..(2 * Len(ps)) |->
        IF x % 2 = 1 THEN ps[(x + 1) \div 2].Value ELSE ps[x \div 2].Duration]

RetryQuads == {<<45, 0, 23, 0>>, <<1, 44, 128, 246>>, <<3, 232, 0, 0>>,
               <<3, 233, 0, 1>>, <<100, 0, 255, 0>>, <<101, 1, 23, 0>>}

\* The pulse trains the line delivers to an attempt.
RetryInputs ==
    {GenFrame(q, None, n, 26, 70, None) : q \in RetryQuads, n \in {82, 85}}
      \cup {GenFrame(q, m, 85, 26, 70, None) :
              q \in {<<45, 0, 23, 0>>, <<1, 44, 128, 246>>}, m \in {<<0, 128>>, <<4, 1>>}}
      \cup {GenFrame(<<45, 0, 23, 0>>, None, n, 26, 70, None) : n \in {81, 86}}
      \cup {GenFrame(<<45, 0, 23, 0>>, None, 83, 26, 70, <<0, "level">>)}

\* The errors dialDHTxxAndRead can return: a failed call of the GPIO library
\* (lines 507-551, 338-364) or sift's pulse count error (line 437).
DialErrors == {Err("io", <<"InitGPIO">>), Err("io", <<"Read">>), Err("pulse_count", <<32000>>)}

\* Line 243: the argument of monoSleep, 1500 ms, in us.  monoSleep (lines
\* 556-569) spins until at least that long has passed.
RetryWait == 1500 * 1000

\* Lines 240-244: where the loop goes once retry and retried are updated: to
\* the sleep of line 243.
AfterRetry_NoWait == "call"
AfterRetry == "sleep"

RetryInit ==
    /\ pc = "call"
    /\ retry \in 0..MaxRetry
    /\ asked = retry
    /\ retried = 0
    /\ sensorType \in SensorTypes
    /\ pulses = <<>> /\ dec = None /\ gen = None
    /\ dial = None /\ last = None /\ ret = None
    /\ hist = <<>> /\ sleeps = <<>>
    /\ IdleByte
    /\ IdleSift
    /\ IdleDial

\* Line 236: one call of ReadDHTxx whose dialDHTxxAndRead returns an error.
AttemptDialFails ==
    /\ pc = "call"
    /\ \E e \in DialErrors :
         LET r == dialDHTxxAndGetResponse([arr |-> <<>>, err |-> e])
         IN  /\ dial' = r
             /\ pulses' = r.pulses
             /\ dec' = None
             /\ gen' = None
             /\ last' = ReadDHTxx(r, None)
             /\ hist' = Append(hist, e.kind)
    /\ pc' = "check"
    /\ UNCHANGED <<sensorType, retry, retried, ret, asked, sleeps, bvars, svars, gvars>>

\* Line 236: one call of ReadDHTxx whose dialDHTxxAndRead returns pulses.
AttemptDecodes ==
    /\ pc = "call"
    /\ \E g \in RetryInputs :
         \E r \in {dialDHTxxAndGetResponse([arr |-> PulsesToArr(FrameOf(g)), err |-> Nil])} :
           \E d \in {decodeDHT11Pulses(sensorType, r.pulses)} :
             /\ gen' = g
             /\ dial' = r
             /\ pulses' = r.pulses
             /\ dec' = d
             /\ last' = ReadDHTxx(r, d)
             /\ hist' = Append(hist, d.err.kind)
    /\ pc' = "check"
    /\ UNCHANGED <<sensorType, retry, retried, ret, asked, sleeps, bvars, svars, gvars>>

\* Line 236: the call panics (sift indexes past the samples, line 427); the
\* panic leaves ReadDHTxxWithRetry without a result.
AttemptPanics ==
    /\ pc = "call"
    /\ pc' = "panic"
    /\ UNCHANGED <<sensorType, pulses, dec, gen, retry, retried, dial, last, ret,
                   hist, asked, sleeps, bvars, svars, gvars>>

\* Lines 237-241: the attempt failed and retries remain.
RetryAfterFailure ==
    /\ pc = "check"
    /\ last.err # Nil
    /\ MayRetry(retry)
    /\ retry' = retry - 1
    /\ retried' = IncRetried(retried)
    /\ pc' = AfterRetry
    /\ UNCHANGED <<dvars, dial, last, ret, hist, asked, sleeps, bvars, svars, gvars>>

\* Lines 243-244: monoSleep(1500 ms), then the next turn of the loop.
SleepBeforeRetry ==
    /\ pc = "sleep"
    /\ sleeps' = Append(sleeps, RetryWait)
    /\ pc' = "call"
    /\ UNCHANGED <<dvars, retry, retried, dial, last, ret, hist, asked, bvars, svars, gvars>>

\* Lines 237-246: the attempt failed and no retry remains.
ReturnFailure ==
    /\ pc = "check"
    /\ last.err # Nil
    /\ ~MayRetry(retry)
    /\ ret' = [temperature |-> Tenths(-1), humidity |-> Tenths(-1),
               retried |-> retried, err |-> last.err]
    /\ pc' = "done"
    /\ UNCHANGED <<dvars, retry, retried, dial, last, hist, asked, sleeps, bvars, svars, gvars>>

\* Line 248: the attempt succeeded.
ReturnSuccess ==
    /\ pc = "check"
    /\ last.err = Nil
    /\ ret' = [temperature |-> last.temperature, humidity |-> last.humidity,
               retried |-> retried, err |-> Nil]
    /\ pc' = "done"
    /\ UNCHANGED <<dvars, retry, retried, dial, last, hist, asked, sleeps, bvars, svars, gvars>>

Next ==
    \/ AttemptDialFails
    \/ AttemptDecodes
    \/ AttemptPanics
    \/ RetryAfterFailure
    \/ SleepBeforeRetry
    \/ ReturnFailure
    \/ ReturnSuccess

Spec == RetryInit /\ [][Next]_vars

\* --------------------------------------------------------------------- sift
\* Line 413.
maxPulseCount == 32000

\* Go's integer division, which truncates toward zero.
GoDiv(a, b) == IF a >= 0 THEN a \div b ELSE -1 * ((-1 * a) \div b)

\* t.Nanoseconds() / int64(1000)
Usec(t) == GoDiv(t, 1000)

Sample(v, t) == [Value |-> v, Time |-> t]

\* Line 452: the sample whose time the timeout check reads is input[i].
TimeoutSample(iNow, jNow) == iNow

\* Line 442: the duration of the pulse a level change closes, each of the two
\* times cut to whole microseconds before the subtraction.
PulseDuration_Ns(nextT, since) == nextT - since
PulseDuration(nextT, since) == Usec(nextT) - Usec(since)

\* Line 454: (nextT us - lastT us) / 1000 > int64(timeoutMsec)
TimedOut(nextT, since, limit) == GoDiv(Usec(nextT) - Usec(since), 1000) > limit

\* Line 435: the level change would open a pulse beyond maxPulseCount.
OverCap_Late(count, limit) == count > limit
OverCap(count, limit) == count > limit - 1

\* Lines 411-422: the locals before the loop.  input[0] of an empty input
\* panics.
SiftStart ==
    /\ spc = "start"
    /\ IF Len(input) = 0
         THEN /\ spc' = "panic"
              /\ UNCHANGED <<j, i, k, lastV, lastT, values, sres>>
         ELSE /\ j' = 0 /\ i' = 0 /\ k' = 0
              /\ lastV' = At(input, 0).Value
              /\ lastT' = At(input, 0).Time
              /\ values' = <<At(input, 0).Value, 0>>
              /\ spc' = "loop"
              /\ UNCHANGED sres
    /\ UNCHANGED <<input, timeoutMsec, bvars, dvars, rvars, gvars>>

\* Lines 424-459 and 461-468: one turn of the loop, and the return when the
\* turn leaves it, for a pulse limit of limit (maxPulseCount, line 413).
SiftLoopTurn(limit) ==
    /\ spc = "loop"
    /\ j' = j + 1
    /\ IF j + 1 >= Len(input)
         THEN \* line 427: index out of range
              /\ spc' = "panic"
              /\ UNCHANGED <<i, k, lastV, lastT, values, sres>>
         ELSE
         LET nextV == At(input, j + 1).Value
             edge == lastV # nextV
             k1 == IF edge THEN k + 1 ELSE k
             lastT1 == IF edge THEN At(input, j + 1).Time ELSE lastT
             i1 == (IF edge THEN 0 ELSE i) + 1
             values1 ==
                 IF edge
                   THEN Append(Append(
                          [values EXCEPT ![2 * k1] = PulseDuration(At(input, j + 1).Time, lastT)],
                          nextV), 0)
                   ELSE values
         IN  IF edge /\ OverCap(k1, limit)
               THEN /\ spc' = "error"
                    /\ sres' = [arr |-> <<>>, err |-> Err("pulse_count", <<limit>>)]
                    /\ k' = k1 /\ i' = 0
                    /\ UNCHANGED <<lastV, lastT, values>>
               ELSE /\ k' = k1 /\ i' = i1
                    /\ lastV' = nextV
                    /\ lastT' = lastT1
                    /\ IF i1 - 1 > 20
                            /\ TimedOut(At(input, TimeoutSample(i1, j + 1)).Time, lastT1, timeoutMsec)
                         THEN /\ values' = [values1 EXCEPT ![2 * k1 + 2] = timeoutMsec * 1000]
                              /\ sres' = [arr |-> values', err |-> Nil]
                              /\ spc' = "done"
                         ELSE /\ values' = values1
                              /\ spc' = "loop"
                              /\ UNCHANGED sres
    /\ UNCHANGED <<input, timeoutMsec, bvars, dvars, rvars, gvars>>

\* The loop as the program runs it.
SiftTurn == SiftLoopTurn(maxPulseCount)

\* ------------------------------------------------------------ sift's inputs
\* Samples are taken dt ns apart; the level changes after each run.
MaxRuns == 3
RunLens == {1, 3, 23, 30}
SampleGaps == {250000, 500300, 1000000}
Timeouts == {5, 10}

RECURSIVE RunSeqs(_)
RunSeqs(n) ==
    IF n = 0 THEN {<<>>}
    ELSE {<<r>> \o t : r \in RunLens, t \in RunSeqs(n - 1)}

RECURSIVE RunLevels(_, _)
RunLevels(runs, v) ==
    IF runs = <<>> THEN <<>>
    ELSE [x \in 1..Head(runs) |-> v] \o RunLevels(Tail(runs), 1 - v)

SiftInputs ==
    {[first |-> v, runs |-> r, dt |-> d] :
        v \in {0, 1}, r \in UNION {RunSeqs(n) : n \in 1..MaxRuns}, d \in SampleGaps}

SamplesOf(g) ==
    LET levels == RunLevels(g.runs, g.first)
    IN  [x \in 1..Len(levels) |-> Sample(levels[x], 700 + (x - 1) * g.dt)]

SiftInit ==
    /\ \E g \in SiftInputs :
         /\ gen = g
         /\ input = SamplesOf(g)
    /\ timeoutMsec \in Timeouts
    /\ spc = "start"
    /\ j = 0 /\ i = 0 /\ k = 0 /\ lastV = 0 /\ lastT = 0
    /\ values = <<>> /\ sres = None
    /\ sensorType = DHT11 /\ pulses = <<>> /\ dec = None
    /\ IdleByte
    /\ IdleRetry
    /\ IdleDial

SiftNext == SiftStart \/ SiftTurn
SiftSpec == SiftInit /\ [][SiftNext]_vars

\* ------------------------------------------------- sift at its pulse limit
\* 32000 pulses need more than 32000 samples.  CapSpec runs the same loop with
\* the limit scaled down to CapLimit pulses, on trains of up to CapLimit + 2
\* runs of 1 or 30 samples, 1 ms apart.
CapLimit == 4
CapRunLens == {1, 30}

RECURSIVE CapRunSeqs(_)
CapRunSeqs(n) ==
    IF n = 0 THEN {<<>>}
    ELSE {<<r>> \o t : r \in CapRunLens, t \in CapRunSeqs(n - 1)}

CapInputs ==
    {[first |-> v, runs |-> r, dt |-> 1000000] :
        v \in {0, 1}, r \in UNION {CapRunSeqs(n) : n \in 1..(CapLimit + 2)}}

CapInit ==
    /\ \E g \in CapInputs :
         /\ gen = g
         /\ input = SamplesOf(g)
    /\ timeoutMsec = 10
    /\ spc = "start"
    /\ j = 0 /\ i = 0 /\ k = 0 /\ lastV = 0 /\ lastT = 0
    /\ values = <<>> /\ sres = None
    /\ sensorType = DHT11 /\ pulses = <<>> /\ dec = None
    /\ IdleByte
    /\ IdleRetry
    /\ IdleDial

SiftTurnCapped == SiftLoopTurn(CapLimit)
CapNext == SiftStart \/ SiftTurnCapped
CapSpec == CapInit /\ [][CapNext]_vars

\* ------------------------------------------------------------- one attempt
\* ReadDHTxx (lines 199-214) through dialDHTxxAndGetResponse (48-72),
\* dialDHTxxAndRead (505-554) and gpioReadSeqUntilTimeout (330-371).  Every
\* call of the embd library can fail; the deferred calls of a function run,
\* last deferred first, when it returns or panics.

\* Line 336: the samples one attempt reads.
SampleCount == 8192

Call(op, arg, n, ok) == [op |-> op, arg |-> arg, n |-> n, ok |-> ok]

\* The pattern `if err != nil { return nil, err }` after a library call: on
\* failure the function goes to its return, else to the next statement.
StepTo_Ignore(ok, next, onError) == next
StepTo(ok, next, onError) == IF ok THEN next ELSE onError

\* defer f(): f is put on the function's list; the list runs from its end.
Defer(fn, f) == [deferred EXCEPT ![fn] = Append(@, f)]
Undefer(fn) == [deferred EXCEPT ![fn] = SubSeq(@, 1, Len(@) - 1)]

\* A library call of the function fn ("outer" is dialDHTxxAndRead, "inner"
\* gpioReadSeqUntilTimeout) whose error is returned at once.  held is what
\* the function defers when the call succeeded ("" for nothing).
LibCall(fn, op, arg, next, held) ==
    /\ \E ok \in BOOLEAN :
         /\ calls' = Append(calls, Call(op, arg, 0, ok))
         /\ apc' = StepTo(ok, next, IF fn = "outer" THEN "outer_return" ELSE "inner_return")
         /\ derr' = IF ok THEN derr ELSE Err("io", <<op>>)
         /\ deferred' = IF ok /\ held # "" THEN Defer(fn, held) ELSE deferred
    /\ UNCHANGED <<darr, panicking, bvars, dvars, rvars, svars>>

\* monoSleep(d), lines 556-569: returns once d us have passed.
Sleep(d, next) ==
    /\ calls' = Append(calls, Call("monoSleep", "us", d, TRUE))
    /\ apc' = next
    /\ UNCHANGED <<deferred, darr, derr, panicking, bvars, dvars, rvars, svars>>

\* dialDHTxxAndRead, lines 507-545.
DialInitGPIO ==
    /\ apc = "InitGPIO"
    /\ LibCall("outer", "InitGPIO", "", "NewDigitalPin", "CloseGPIO")
DialNewDigitalPin ==
    /\ apc = "NewDigitalPin"
    /\ LibCall("outer", "NewDigitalPin", "", "SetOut", "Close")
DialSetOut ==
    /\ apc = "SetOut"
    /\ LibCall("outer", "SetDirection", "Out", "WriteHigh", "")
DialWriteHigh ==
    /\ apc = "WriteHigh"
    /\ LibCall("outer", "Write", "High", "Sleep500", "")
DialSleep500 ==
    /\ apc = "Sleep500"
    /\ Sleep(500 * 1000, "WriteLow")
DialWriteLow ==
    /\ apc = "WriteLow"
    /\ LibCall("outer", "Write", "Low", "Sleep18", "")
DialSleep18 ==
    /\ apc = "Sleep18"
    /\ Sleep(18 * 1000, "WriteHigh2")
DialWriteHigh2 ==
    /\ apc = "WriteHigh2"
    /\ LibCall("outer", "Write", "High", "Sleep40", "")
DialSleep40 ==
    /\ apc = "Sleep40"
    /\ Sleep(40, "ReadInitGPIO")

\* gpioReadSeqUntilTimeout, lines 338-354.
ReadInitGPIO ==
    /\ apc = "ReadInitGPIO"
    /\ LibCall("inner", "InitGPIO", "", "SetIn", "CloseGPIO")
ReadSetIn ==
    /\ apc = "SetIn"
    /\ LibCall("inner", "SetDirection", "In", "Read", "")

\* Lines 356-368: p.Read() for each of the SampleCount samples; the first
\* failing Read ends the function.  The call at the 0-based index bad fails,
\* or none does (bad = SampleCount).
ReadFailsAt == {0, 1, SampleCount - 1, SampleCount}
ReadSamples ==
    /\ apc = "Read"
    /\ \E bad \in ReadFailsAt :
         LET ok == bad = SampleCount
         IN  /\ calls' = Append(calls, Call("Read", "", IF ok THEN SampleCount ELSE bad + 1, ok))
             /\ apc' = StepTo(ok, "sift", "inner_return")
             /\ derr' = IF ok THEN derr ELSE Err("io", <<"Read">>)
    /\ UNCHANGED <<deferred, darr, panicking, bvars, dvars, rvars, svars>>

\* Line 370: return sift(values, timeoutMsec).  sift returns the pulses it
\* found in the samples, here those of a frame.
SiftReturns ==
    /\ apc = "sift"
    /\ \E g \in RetryInputs :
         /\ gen' = g
         /\ darr' = PulsesToArr(FrameOf(g))
    /\ calls' = Append(calls, Call("sift", "", 10, TRUE))
    /\ apc' = "inner_return"
    /\ UNCHANGED <<sensorType, pulses, dec, deferred, derr, panicking, bvars, rvars, svars>>

\* Line 370: sift reads past the end of the samples (line 427) and panics.
SiftPanics ==
    /\ apc = "sift"
    /\ calls' = Append(calls, Call("sift", "", 10, FALSE))
    /\ panicking' = TRUE
    /\ apc' = "inner_return"
    /\ UNCHANGED <<deferred, darr, derr, bvars, dvars, rvars, svars>>

\* Line 342 at the return of gpioReadSeqUntilTimeout: its deferred CloseGPIO
\* runs; what it returns is dropped.
ReadRunDeferred ==
    /\ apc = "inner_return"
    /\ deferred.inner # <<>>
    /\ calls' = Append(calls, Call(deferred.inner[Len(deferred.inner)], "", 0, TRUE))
    /\ deferred' = Undefer("inner")
    /\ UNCHANGED <<apc, darr, derr, panicking, bvars, dvars, rvars, svars>>

\* Lines 548-553: back in dialDHTxxAndRead, which returns what it got.
ReadReturned ==
    /\ apc = "inner_return"
    /\ deferred.inner = <<>>
    /\ apc' = "outer_return"
    /\ UNCHANGED <<calls, deferred, darr, derr, panicking, bvars, dvars, rvars, svars>>

\* Lines 517 and 510 at the return of dialDHTxxAndRead: p.Close(), then
\* CloseGPIO().
DialRunDeferred ==
    /\ apc = "outer_return"
    /\ deferred.outer # <<>>
    /\ calls' = Append(calls, Call(deferred.outer[Len(deferred.outer)], "", 0, TRUE))
    /\ deferred' = Undefer("outer")
    /\ UNCHANGED <<apc, darr, derr, panicking, bvars, dvars, rvars, svars>>

\* The panic leaves ReadDHTxx: nothing recovers it.
PanicLeaves ==
    /\ apc = "outer_return"
    /\ deferred.outer = <<>>
    /\ panicking
    /\ apc' = "crashed"
    /\ UNCHANGED <<calls, deferred, darr, derr, panicking, bvars, dvars, rvars, svars>>

\* Lines 55-58 and 203-205: dialDHTxxAndRead returned an error, and so do
\* dialDHTxxAndGetResponse and ReadDHTxx.
AttemptFails ==
    /\ apc = "outer_return"
    /\ deferred.outer = <<>>
    /\ ~panicking
    /\ derr # Nil
    /\ \E r \in {dialDHTxxAndGetResponse([arr |-> <<>>, err |-> derr])} :
         /\ dial' = r
         /\ last' = ReadDHTxx(r, None)
    /\ apc' = "done"
    /\ UNCHANGED <<pc, retry, retried, ret, hist, asked, sleeps,
                   calls, deferred, darr, derr, panicking, bvars, dvars, svars>>

\* Lines 60-71 and 207-213: dialDHTxxAndRead returned arr; its pulses are
\* decoded.
AttemptDecodesPulses ==
    /\ apc = "outer_return"
    /\ deferred.outer = <<>>
    /\ ~panicking
    /\ derr = Nil
    /\ \E r \in {dialDHTxxAndGetResponse([arr |-> darr, err |-> Nil])} :
         \E d \in {decodeDHT11Pulses(sensorType, r.pulses)} :
           /\ dial' = r
           /\ pulses' = r.pulses
           /\ dec' = d
           /\ last' = ReadDHTxx(r, d)
           /\ calls' = Append(calls, Call("decodeDHT11Pulses", "", Len(r.pulses), d.err = Nil))
    /\ apc' = "done"
    /\ UNCHANGED <<sensorType, gen, pc, retry, retried, ret, hist, asked, sleeps,
                   deferred, darr, derr, panicking, bvars, svars>>

DialInit ==
    /\ apc = "InitGPIO"
    /\ calls = <<>>
    /\ deferred = [outer |-> <<>>, inner |-> <<>>]
    /\ darr = <<>> /\ derr = Nil
    /\ panicking = FALSE
    /\ sensorType \in SensorTypes
    /\ pulses = <<>> /\ dec = None /\ gen = None
    /\ IdleByte
    /\ IdleRetry
    /\ IdleSift

DialNext ==
    \/ DialInitGPIO
    \/ DialNewDigitalPin
    \/ DialSetOut
    \/ DialWriteHigh
    \/ DialSleep500
    \/ DialWriteLow
    \/ DialSleep18
    \/ DialWriteHigh2
    \/ DialSleep40
    \/ ReadInitGPIO
    \/ ReadSetIn
    \/ ReadSamples
    \/ SiftReturns
    \/ SiftPanics
    \/ ReadRunDeferred
    \/ ReadReturned
    \/ DialRunDeferred
    \/ PanicLeaves
    \/ AttemptFails
    \/ AttemptDecodesPulses

DialSpec == DialInit /\ [][DialNext]_vars

\* ===================================================================== claims
Decoded == dec # None
FrameBytesSum == (gen.bytes[1] + gen.bytes[2] + gen.bytes[3] + gen.bytes[4]) % 256
\* The input is an undamaged train of an accepted length.
WellFormedFrame == gen.bad = None /\ gen.n \in 82..85

\* C3 (DecodeSpec): checksum round trip.  A well-formed frame that carries
\* b0..b3 and the checksum (b0+b1+b2+b3) mod 256 is decoded into exactly these
\* bytes and never fails with the checksum error; and a Reading is returned
\* only when the fifth byte sent, and decoded, is the sum of the other four
\* modulo 256.
C3_ChecksumRoundTrip ==
    (Decoded /\ WellFormedFrame) =>
        /\ gen.bytes[5] = FrameBytesSum =>
             /\ dec.err.kind # "checksum"
             /\ dec.bytes = gen.bytes
        /\ dec.err = Nil =>
             /\ gen.bytes[5] = FrameBytesSum
             /\ dec.bytes[5] =
                  (dec.bytes[1] + dec.bytes[2] + dec.bytes[3] + dec.bytes[4]) % 256

\* A valid frame whose byte sum wraps around 256 has been decoded into a Reading.
C3_Witness ==
    /\ Decoded /\ WellFormedFrame
    /\ gen.bytes[1] + gen.bytes[2] + gen.bytes[3] + gen.bytes[4] > 255
    /\ gen.bytes[5] = FrameBytesSum
    /\ dec.err = Nil
    /\ dec.bytes = gen.bytes

\* The bytes sent differ from a valid frame's in exactly one position.
OneByteMutated ==
    /\ gen.orig[5] = (gen.orig[1] + gen.orig[2] + gen.orig[3] + gen.orig[4]) % 256
    /\ Cardinality({x \in 1..5 : gen.bytes[x] # gen.orig[x]}) = 1

\* C4 (DecodeSpec): checksum rejection.  A well-formed frame that differs from
\* a valid one in exactly one of its five bytes fails with the checksum error,
\* under either sensor variant, and with no other error or Reading.
C4_ChecksumRejection ==
    (Decoded /\ WellFormedFrame /\ OneByteMutated) =>
        /\ dec.err.kind = "checksum"
        /\ dec.temperature = Tenths(-1) /\ dec.humidity = Tenths(-1)

\* Byte 0 of a valid frame was changed to a humidity above 100 under DHT11:
\* the checksum error is reported, not the range error.
C4_Witness ==
    /\ Decoded /\ WellFormedFrame /\ OneByteMutated
    /\ sensorType = DHT11
    /\ gen.mut = <<0, 128>> /\ gen.bytes[1] > 100
    /\ dec.err.kind = "checksum"

\* Pulse trains of p + m pulses that end in the last m pulses of ps, behind p
\* other leading pulses.
OtherLeads(p) ==
    IF p = 0 THEN {<<>>}
    ELSE {[x \in 1..p |-> Pulse((x + p + 1) % 2, d)] : d \in {26, 70}}
SameLast(ps, m, ps0) ==
    {l \o SubSeq(ps, Len(ps) - m + 1, Len(ps)) : l \in UNION {OtherLeads(p) : p \in ps0}}

LengthRefused ==
    (Decoded /\ Len(pulses) \in {81, 86}) => dec.err = Err("length", <<Len(pulses)>>)

\* C5 as stated (DecodeSpec): trains of 82..85 pulses with the same last 80
\* pulses all decode to the same result; 81 or 86 pulses are refused.
C5_Original ==
    /\ (Decoded /\ Len(pulses) \in 82..85) =>
          \A q \in SameLast(pulses, 80, 2..5) : decodeDHT11Pulses(sensorType, q) = dec
    /\ LengthRefused

\* C5 (DecodeSpec), amended: trains of 82..85 pulses with the same last 82
\* pulses (the 80 payload pulses and the two pulses after them) all decode to
\* the same result; a train of 81 or 86 pulses fails with the length error.
C5_PreambleTrim ==
    /\ (Decoded /\ Len(pulses) \in 82..85) =>
          \A q \in SameLast(pulses, 82, 0..3) : decodeDHT11Pulses(sensorType, q) = dec
    /\ LengthRefused

\* A train of 85 pulses has been decoded into a Reading.
C5_Witness ==
    /\ Decoded /\ Len(pulses) = 85 /\ dec.err = Nil
    /\ \E q \in SameLast(pulses, 82, 0..3) : Len(q) = 82

\* C6 (ByteSpec): decodeByte builds the byte most significant bit first: bit
\* 7-n of the result is 1 exactly when the high pulse at index start+2n+1
\* lasts more than 47 us; 47 us gives 0 and 48 us gives 1.
C6_BitThreshold ==
    (bres # None /\ bres.err = Nil) =>
        \A n \in 0..7 :
            Bit(bres.b, 7 - n) = 1 <=> At(pulses, start + 2 * n + 1).Duration > 47

\* A byte with both bit values was decoded from high pulses of 47 and 48 us.
C6_Witness ==
    /\ bres # None /\ bres.err = Nil
    /\ bres.b = 165
    /\ At(pulses, start + 1).Duration = 48
    /\ At(pulses, start + 3).Duration = 47

Abs(x) == IF x < 0 THEN -1 * x ELSE x

\* C8 (DecodeSpec): for every accepted frame, DHT11 gives humidity = byte0 and
\* temperature = byte2; DHT22 (alias AM2302) gives humidity*10 = byte0*256 +
\* byte1 and |temperature|*10 = (byte2 & 0x7F)*256 + byte3, negative exactly
\* when bit 0x80 of byte2 is set and the magnitude is nonzero.  (45,0,23,0,68)
\* is 45 % / 23 C under DHT11; (0x01,0x2C,0x80,0xF6,sum) is 30.0 % / -24.6 C
\* under DHT22.  Values are in tenths.
C8_Conversion ==
    (Decoded /\ dec.err = Nil) =>
        LET b == gen.bytes
            magnitude == (b[3] % 128) * 256 + b[4]
        IN  /\ sensorType = DHT11 =>
                 dec.humidity = 10 * b[1] /\ dec.temperature = 10 * b[3]
            /\ sensorType = AM2302 =>
                 /\ dec.humidity = b[1] * 256 + b[2]
                 /\ Abs(dec.temperature) = magnitude
                 /\ dec.temperature < 0 <=> (b[3] >= 128 /\ magnitude # 0)
            /\ (sensorType = DHT11 /\ b = <<45, 0, 23, 0, 68>>) =>
                 dec.humidity = 450 /\ dec.temperature = 230
            /\ (sensorType = DHT22 /\ SubSeq(b, 1, 4) = <<1, 44, 128, 246>>) =>
                 dec.humidity = 300 /\ dec.temperature = -246

\* The DHT22 frame with the sign bit set was decoded to 30.0 % / -24.6 C.
C8_Witness ==
    /\ Decoded /\ dec.err = Nil /\ sensorType = DHT22
    /\ gen.bytes = <<1, 44, 128, 246, 163>>
    /\ dec.temperature = -246 /\ dec.humidity = 300

\* The attempts made so far, and whether each of them failed.
Attempts == Len(hist)
AllFailed == \A x \in 1..Len(hist) : hist[x] # "nil"
Returned == pc = "done"

\* C1 (Spec): for every retry argument n and every sequence of attempt
\* outcomes, ReadDHTxx is called at most n+1 times; when all attempts failed
\* the call returns after exactly n+1 of them, with the error of the last
\* attempt and retried = n, whatever the kinds of the errors; and it goes on
\* to another attempt after a failure exactly while retries remain.
C1_AttemptBound ==
    /\ Attempts <= asked + 1
    /\ (Returned /\ AllFailed) =>
          /\ Attempts = asked + 1
          /\ ret.err = last.err /\ ret.err # Nil
          /\ ret.err.kind = hist[asked + 1]
          /\ ret.retried = asked
    /\ pc = "sleep" => (AllFailed /\ Attempts <= asked /\ retried = Attempts)

\* A call with retry = 2 returned after three attempts that failed with
\* errors of three kinds.
C1_Witness ==
    /\ Returned /\ asked = 2
    /\ hist = <<"io", "checksum", "length">>
    /\ ret.err.kind = "length" /\ ret.retried = 2

\* C2 (Spec): when k attempts fail and attempt k+1 succeeds, k <= retry
\* argument, the call returns the temperature and humidity of attempt k+1, no
\* error and retried = k, and no attempt follows a success; when more
\* attempts fail than the retry argument allows, it returns the error of
\* attempt retry+1 and makes no further attempt.
C2_RetryAccounting ==
    /\ \A x \in 1..(Len(hist) - 1) : hist[x] # "nil"
    /\ (Returned /\ ~AllFailed) =>
          /\ Attempts - 1 <= asked
          /\ dec.err = Nil
          /\ ret = [temperature |-> dec.temperature, humidity |-> dec.humidity,
                    retried |-> Attempts - 1, err |-> Nil]
    /\ (Returned /\ AllFailed) =>
          /\ Attempts = asked + 1
          /\ ret.err = last.err /\ ret.err # Nil
    /\ (asked = 2 /\ Len(hist) = 3 /\ hist[3] = "nil" /\ Returned) => ret.retried = 2
    /\ (asked = 1 /\ Len(hist) >= 2 /\ hist[2] # "nil") =>
          (Attempts = 2 /\ (Returned => ret.err = last.err))

\* Fail, fail, succeed with retry = 2: the third attempt's Reading is returned
\* with retried = 2.
C2_Witness ==
    /\ Returned /\ asked = 2
    /\ hist = <<"checksum", "io", "nil">>
    /\ ret.err = Nil /\ ret.retried = 2
    /\ ret.temperature = -246 /\ ret.humidity = 300

\* The humidity the frame's bytes encode is above 100 %.
HumidityOver ==
    \/ sensorType = DHT11 /\ gen.bytes[1] > 100
    \/ sensorType = DHT22 /\ gen.bytes[1] * 256 + gen.bytes[2] > 1000

\* C7 (Spec): every Reading returned without error by decodeDHT11Pulses,
\* ReadDHTxx or ReadDHTxxWithRetry has 0 <= humidity <= 100; a frame of valid
\* length, pulses and checksum whose humidity is above 100 fails with the
\* range error, its value is not clamped, and the range error is only raised
\* once the checksum has been accepted.
C7_HumidityRange ==
    /\ (dec # None /\ dec.err = Nil) => dec.humidity \in 0..1000
    /\ (last # None /\ last.err = Nil) => last.humidity \in 0..1000
    /\ (ret # None /\ ret.err = Nil) => ret.humidity \in 0..1000
    /\ (dec # None /\ WellFormedFrame /\ gen.bytes[5] = FrameBytesSum /\ HumidityOver) =>
          /\ dec.err.kind = "humidity"
          /\ dec.humidity = -10
          /\ last = ReadFailed(dec.err)
          /\ ret # None => ret.err = dec.err /\ ret.humidity = -10
    /\ (dec # None /\ dec.err.kind = "humidity") =>
          /\ gen.bytes[5] = FrameBytesSum
          /\ dec.bytes = gen.bytes

\* A DHT22 frame encoding 100.1 % with a valid checksum was refused with the
\* range error, which the retry loop returned.
C7_Witness ==
    /\ Returned /\ sensorType = DHT22
    /\ gen # None /\ gen.bytes = <<3, 233, 0, 1, 237>>
    /\ dec.err.kind = "humidity"
    /\ ret.err.kind = "humidity" /\ ret.humidity = -10

\* The Reading the five bytes b stand for under a variant, in tenths.
ReadingOf(type, b) ==
    IF type = DHT11 THEN [temperature |-> 10 * b[3], humidity |-> 10 * b[1]]
    ELSE [temperature |-> (IF b[3] >= 128 THEN -1 ELSE 1) * ((b[3] % 128) * 256 + b[4]),
          humidity |-> b[1] * 256 + b[2]]

\* C9 (Spec): all or nothing.  Whenever decodeDHT11Pulses, ReadDHTxx or
\* ReadDHTxxWithRetry returns an error, temperature and humidity are both the
\* sentinel -1; whenever the error is nil, both values are those of one fully
\* decoded frame of the same attempt whose checksum was verified.
C9_AllOrNothing ==
    /\ (dec # None /\ dec.err # Nil) => (dec.temperature = -10 /\ dec.humidity = -10)
    /\ (last # None /\ last.err # Nil) => (last.temperature = -10 /\ last.humidity = -10)
    /\ (ret # None /\ ret.err # Nil) => (ret.temperature = -10 /\ ret.humidity = -10)
    /\ (dec # None /\ dec.err = Nil) =>
          /\ gen.bytes[5] = FrameBytesSum
          /\ dec.temperature = ReadingOf(sensorType, gen.bytes).temperature
          /\ dec.humidity = ReadingOf(sensorType, gen.bytes).humidity
    /\ (last # None /\ last.err = Nil) =>
          /\ dial.err = Nil /\ dec # None /\ dec.err = Nil
          /\ last.temperature = dec.temperature /\ last.humidity = dec.humidity
    /\ (ret # None /\ ret.err = Nil) =>
          /\ last.err = Nil
          /\ ret.temperature = last.temperature /\ ret.humidity = last.humidity

\* After a first attempt that failed the checksum, the last attempt decoded
\* all five bytes and was refused for its humidity: the call returned -1, -1
\* and that error, none of the decoded values.
C9_Witness ==
    /\ Returned /\ Attempts >= 2
    /\ hist[1] = "checksum"
    /\ dec # None /\ dec.err.kind = "humidity" /\ dec.bytes # <<>>
    /\ ret.err = dec.err
    /\ ret.temperature = -10 /\ ret.humidity = -10

\* The ms between the last level change and sample x, as line 454 computes them.
ElapsedMs(x) == GoDiv(Usec(At(input, x).Time) - Usec(lastT), 1000)

\* The samples a .. b are a run of one level that starts at a level change
\* (or at the first sample), spans more than the polling granularity and
\* lasts longer than the timeout.
IdleRun(a, b) ==
    /\ a + 22 <= b
    /\ \A x \in a..b : At(input, x).Value = At(input, a).Value
    /\ a > 0 => At(input, a - 1).Value # At(input, a).Value
    /\ GoDiv(Usec(At(input, b).Time) - Usec(At(input, a).Time), 1000) > timeoutMsec
HasIdleRun ==
    \E a \in 0..(Len(input) - 1) : \E b \in a..(Len(input) - 1) : IdleRun(a, b)

\* C10 as stated (SiftSpec): the periodic check compares the time between the
\* last level change and the sample being scanned with the timeout, and at the
\* first check where it exceeds timeoutMsec ms sift closes the last pulse with
\* timeoutMsec*1000 us and returns without error; so every input with a run of
\* one level longer than the timeout makes sift return pulses whose last
\* duration is timeoutMsec*1000.
C10_Original ==
    /\ (spc = "loop" /\ j >= 1) => ~(i - 1 > 20 /\ ElapsedMs(j) > timeoutMsec)
    /\ spc = "done" =>
          /\ sres.err = Nil
          /\ sres.arr[Len(sres.arr)] = timeoutMsec * 1000
    /\ (spc \in {"done", "error", "panic"} /\ HasIdleRun) => spc = "done"

\* The pair n of the byte at start is one decodeByte refuses: a low pulse that
\* is not low, a high pulse that is not high, or a high pulse over 97 us.
BadPair(n) ==
    \/ At(pulses, start + 2 * n).Value # 0
    \/ At(pulses, start + 2 * n + 1).Value = 0
    \/ At(pulses, start + 2 * n + 1).Duration > 97

\* C11 (ByteSpec): decodeByte fails exactly when fewer than 16 pulses remain
\* from start, or some low pulse at start+2n has a nonzero level, or some high
\* pulse at start+2n+1 has level zero or lasts more than 97 us; a high pulse of
\* exactly 97 us is accepted and read as bit 1; every failure returns byte 0.
C11_ByteFailure ==
    bres # None =>
        /\ bres.err # Nil <=>
              \/ Len(pulses) - start < 16
              \/ \E n \in 0..7 : BadPair(n)
        /\ bres.err # Nil => bres.b = 0
        /\ bres.err = Nil =>
              \A n \in 0..7 :
                  At(pulses, start + 2 * n + 1).Duration = 97 => Bit(bres.b, 7 - n) = 1

\* Byte 255 with high pulses of 97 us, the last of them stretched to 98 us:
\* the seven pulses of 97 us passed, the eighth made decodeByte return 0 and
\* the duration error.
C11_Witness ==
    /\ bres # None /\ bres.err.kind = "high_dur" /\ bres.b = 0
    /\ Len(pulses) - start >= 16
    /\ \A n \in 0..6 : ~BadPair(n) /\ At(pulses, start + 2 * n + 1).Duration = 97
    /\ At(pulses, start + 15).Duration = 98

\* The pulses at the 0-based indices n-82 .. n-3 of a train of n pulses.
WindowOf(ps) == SubSeq(ps, Len(ps) - 82 + 1, Len(ps) - 2)

\* Other pulses for the two places behind the window.
OtherTails == {<<Pulse(1, 5), Pulse(0, 98)>>, <<Pulse(0, 50), Pulse(1, 10000)>>}

\* The five bytes of a window of 80 pulses, each decoded on its own.
WindowBytes(w) == [x \in 0..4 |-> decodeByte(w, 16 * x)]

\* C12 (DecodeSpec): of a train of n pulses, n in 82..85, decodeDHT11Pulses
\* drops the first n-82 and the last 2: its result is the same whatever the
\* dropped pulses are, it depends on the pulses n-82 .. n-3 only, and its bytes
\* are those at the offsets 0, 16, 32, 48, 64 of that window (the first byte
\* that fails gives the error).  Every other length, 0 and 80 too, gives the
\* length error before any byte is decoded.
C12_FrameWindow ==
    Decoded =>
        IF Len(pulses) \in 82..85
          THEN LET w == WindowOf(pulses)
                   rs == WindowBytes(w)
                   failing == {x \in 0..4 : rs[x].err # Nil}
               IN  /\ Len(w) = 80
                   /\ \A l \in OtherLeads(Len(pulses) - 82) : \A t \in OtherTails :
                          decodeDHT11Pulses(sensorType, l \o w \o t) = dec
                   /\ failing # {} =>
                          \E x \in failing :
                              /\ \A y \in failing : x <= y
                              /\ dec.err = rs[x].err
                   /\ failing = {} =>
                          IF dec.err.kind = "checksum"
                            THEN dec.err.args =
                                   <<rs[4].b, ByteSum(rs[0].b, rs[1].b, rs[2].b, rs[3].b),
                                     rs[0].b, rs[1].b, rs[2].b, rs[3].b>>
                            ELSE dec.bytes = <<rs[0].b, rs[1].b, rs[2].b, rs[3].b, rs[4].b>>
          ELSE dec = DecodeFailed(Err("length", <<Len(pulses)>>), <<>>)

\* A train of 84 pulses was decoded into a Reading from the bytes of its
\* window, which leaves out the two leading pulses.
C12_Witness ==
    /\ Decoded /\ Len(pulses) = 84 /\ dec.err = Nil
    /\ WindowOf(pulses) = SubSeq(pulses, 3, 82)
    /\ dec.bytes[1] = WindowBytes(WindowOf(pulses))[0].b
    /\ dec.bytes[5] = WindowBytes(WindowOf(pulses))[4].b

\* The indices, among the samples 0 .. n, of the first sample of each maximal
\* run of one level, and the m-th of them in order.
RunStarts(n) ==
    {x \in 0..n : x = 0 \/ At(input, x).Value # At(input, x - 1).Value}
NthStart(n, m) ==
    CHOOSE x \in RunStarts(n) : Cardinality({y \in RunStarts(n) : y < x}) = m - 1

\* C13 (SiftSpec): when sift returns pulses, the pulses that
\* dialDHTxxAndGetResponse makes of them are, in order, the maximal runs of one
\* level among the samples scanned (0 .. j): as many pulses as runs, each with
\* the level of its run, adjacent pulses of different levels, the first with
\* the level of the first sample; and every pulse but the last lasts from the
\* first sample of its run to the first sample of the next, both times taken
\* in whole microseconds.
C13_RunLengthMerge ==
    spc = "done" =>
        LET ps == ArrToPulses(sres.arr)
        IN  /\ sres.err = Nil
            /\ Len(sres.arr) = 2 * Len(ps)
            /\ Len(ps) = Cardinality(RunStarts(j))
            /\ ps[1].Value = At(input, 0).Value
            /\ \A m \in 1..Len(ps) : ps[m].Value = At(input, NthStart(j, m)).Value
            /\ \A m \in 1..(Len(ps) - 1) :
                  /\ ps[m].Value # ps[m + 1].Value
                  /\ ps[m].Duration =
                        Usec(At(input, NthStart(j, m + 1)).Time)
                          - Usec(At(input, NthStart(j, m)).Time)

\* sift returned three pulses for samples 500.3 us apart: the first run of 3
\* samples gave a pulse of 1501 - 0 us, the second of 1 sample a pulse of
\* 2001 - 1501 us.
C13_Witness ==
    /\ spc = "done" /\ sres.err = Nil
    /\ Len(sres.arr) = 6
    /\ sres.arr[1] = At(input, 0).Value
    /\ sres.arr[2] = 1501 /\ sres.arr[4] = 500
    /\ sres.arr[3] # sres.arr[1] /\ sres.arr[5] # sres.arr[3]

\* C14 (Spec): ReadDHTxxWithRetry waits 1500 ms exactly once between two
\* consecutive attempts, after the failed one and before the next: when the
\* wait starts, all attempts so far failed and retry has been decremented and
\* retried incremented once per failed attempt; an attempt starts only after
\* as many waits as earlier attempts; and nothing waits after a success or
\* after the last failure, so m attempts make m-1 waits.
C14_BackoffOrdering ==
    /\ \A x \in 1..Len(sleeps) : sleeps[x] = 1500 * 1000
    /\ pc = "call" => Len(sleeps) = Attempts
    /\ pc = "check" => Len(sleeps) = Attempts - 1
    /\ pc = "sleep" =>
          /\ Len(sleeps) = Attempts - 1
          /\ last.err # Nil /\ AllFailed
          /\ retry = asked - Attempts
          /\ retried = Attempts
    /\ Returned => Len(sleeps) = Attempts - 1

\* Three attempts, the last a success, with two waits of 1500 ms between
\* them and none after it.
C14_Witness ==
    /\ Returned /\ Attempts = 3 /\ hist[3] = "nil"
    /\ sleeps = <<1500000, 1500000>>
    /\ retry = asked - 2 /\ retried = 2

\* The pulses open or closed once the samples 0 .. n are scanned.
RunCount(n) == Cardinality(RunStarts(n))

\* C15 (CapSpec, the pulse limit scaled to CapLimit): sift never holds or
\* returns more than the limit of pulses; it returns the pulse count error,
\* and no pulses, exactly at the first sample whose level change would open
\* one pulse more; and ReadDHTxx turns that error into the failure -1, -1, err
\* of an attempt, as it does every other error of dialDHTxxAndRead.
C15_PulseCap ==
    /\ spc = "loop" => (k + 1 <= CapLimit /\ RunCount(j) = k + 1)
    /\ spc = "done" =>
          /\ Len(sres.arr) <= 2 * CapLimit
          /\ Len(sres.arr) = 2 * RunCount(j)
    /\ spc = "error" =>
          /\ sres = [arr |-> <<>>, err |-> Err("pulse_count", <<CapLimit>>)]
          /\ j \in RunStarts(j)
          /\ RunCount(j) = CapLimit + 1
          /\ ReadDHTxx(dialDHTxxAndGetResponse(sres), None) = ReadFailed(sres.err)
          /\ sres.err.kind \in {e.kind : e \in DialErrors}
    /\ (spc = "panic" /\ Len(input) > 0) => RunCount(Len(input) - 1) <= CapLimit

\* The level change that would open pulse CapLimit + 1 made sift return the
\* error, after CapLimit runs of one sample each.
C15_Witness ==
    /\ spc = "error" /\ j = CapLimit /\ k = CapLimit
    /\ sres.arr = <<>> /\ sres.err.kind = "pulse_count"
    /\ Len(input) > j + 1

\* sift returned exactly as many pulses as the limit allows.
ReturnedAtLimit == spc = "done" /\ Len(sres.arr) = 2 * CapLimit

\* C17 as stated (SiftSpec): on a train of at least one sample, every index
\* sift reads, the scan index j and the index i of the timeout check, is within
\* 0 .. len(input)-1, and sift ends by returning pulses or an error: when the
\* samples run out before an idle timeout is seen, it returns and does not
\* read past the end.
C17_Original ==
    Len(input) > 0 =>
        /\ spc # "panic"
        /\ spc \in {"loop", "done", "error"} =>
              (j <= Len(input) - 1 /\ i <= Len(input) - 1)

\* The steps of the cycle of one attempt, in the order C16 gives them.
Cycle ==
    <<Call("SetDirection", "Out", 0, TRUE), Call("Write", "High", 0, TRUE),
      Call("monoSleep", "us", 500000, TRUE), Call("Write", "Low", 0, TRUE),
      Call("monoSleep", "us", 18000, TRUE), Call("Write", "High", 0, TRUE),
      Call("monoSleep", "us", 40, TRUE), Call("SetDirection", "In", 0, TRUE),
      Call("Read", "", 8192, TRUE), Call("sift", "", 10, TRUE)>>
IsCycleStep(c) == c.op \in {Cycle[x].op : x \in 1..Len(Cycle)} \cup {"decodeDHT11Pulses"}
CycleSteps == SelectSeq(calls, IsCycleStep)

\* The calls of the embd library that failed, and the calls a function only
\* makes when it returns.
LibOps == {"InitGPIO", "NewDigitalPin", "SetDirection", "Write", "Read"}
FailedCalls == {x \in 1..Len(calls) : calls[x].op \in LibOps /\ ~calls[x].ok}
IsCleanup(c) == c.op \in {"CloseGPIO", "Close"}

WriteFailureReturned ==
    /\ apc = "done" /\ last.err = Err("io", <<"Write">>)
    /\ Len(calls) = 8 /\ ~calls[6].ok

\* How many of the calls so far are successful calls of op.
Made(op) == Cardinality({x \in 1..Len(calls) : calls[x].op = op /\ calls[x].ok})

\* The GPIO subsystem is open for the call at x: an InitGPIO succeeded before
\* it and no CloseGPIO came between the two.
OpenAt(x) ==
    \E a \in 1..(x - 1) :
        /\ calls[a].op = "InitGPIO" /\ calls[a].ok
        /\ \A c \in (a + 1)..(x - 1) : calls[c].op # "CloseGPIO"

PinOps == {"SetDirection", "Write", "Read", "Close"}

\* C18 as stated (DialSpec): when the attempt is over, by return or by
\* panic, there is one CloseGPIO for each InitGPIO that succeeded and one Close
\* of the pin if NewDigitalPin succeeded; and every SetDirection, Write, Read
\* and Close of the pin is called while the GPIO subsystem is open, after an
\* InitGPIO and before any CloseGPIO that follows it.
C18_Original ==
    /\ apc \in {"done", "crashed"} =>
          /\ Made("CloseGPIO") = Made("InitGPIO")
          /\ Made("Close") = Made("NewDigitalPin")
    /\ \A x \in 1..Len(calls) : calls[x].op \in PinOps => OpenAt(x)

\* What the calls do satisfy: the counts at the end of the attempt, and every
\* call on the pin but its Close comes before the first CloseGPIO.
LifecycleButClose ==
    /\ apc \in {"done", "crashed"} =>
          /\ Made("CloseGPIO") = Made("InitGPIO")
          /\ Made("Close") = Made("NewDigitalPin")
    /\ \A x \in 1..Len(calls) : (calls[x].op \in PinOps \ {"Close"}) => OpenAt(x)
====
